---------------------------- MODULE Spec2Model ----------------------------
(***************************************************************************)
(* A model of clusterdock's cluster lifecycle orchestrator:                *)
(*   - docker_utils.py : subnet search, network / container queries,       *)
(*                       bulk teardown (remove_all_containers)             *)
(*   - cluster.py      : Cluster.setup_network, Cluster.start, Node.start  *)
(* The container engine (networks, containers) and competing orchestrator  *)
(* processes on the same host are the environment.                         *)
(***************************************************************************)
EXTENDS Integers, Sequences, FiniteSets, TLC

(***************************************************************************)
(* Bounds of the model.                                                    *)
(***************************************************************************)
\* Highest address of the (scaled down) address space; stands for netaddr's
\* max_int of IPv4, past which IPNetwork.next raises IndexError.
MaxAddr == 7
\* Number of networks competing processes may create while setup_network runs.
MaxEnvNets == 1
\* Number of create_network calls explored in one setup_network call.
MaxCreates == 4
\* Number of successive subnet searches with the same arguments.
MaxSearches == 2
\* Number of setup_network calls in a row.
MaxCalls == 2

\* Most labels a container of the teardown inputs carries.
MaxLabels == 2

\* Most hosts of one fan-out, and most hosts on which its task fails.
MaxHosts == 9
MaxFailing == 1

\* Most nodes the groups of a cluster hold together.
MaxMembers == 4

\* Most volumes a caller passes to a Node.
MaxVolumes == 2

\* timeout_min ranges over 0 .. MaxTimeoutMin.
MaxTimeoutMin == 1
\* healthy_time_threshold_sec is at most MaxThresholdSec.
MaxThresholdSec == 7
\* Reading the services takes up to MaxPollSec seconds.
MaxPollSec == 1

(***************************************************************************)
(* Addresses and subnets.  A CIDR string "a.b.c.d/p" is the record          *)
(* [addr |-> the address as written, size |-> 2^(32-p)]; as with            *)
(* netaddr.IPNetwork, the address as written may have host bits set.        *)
(***************************************************************************)
BlockSizes == {2, 4}

Addrs == 0 .. MaxAddr

\* Every CIDR string that fits in the address space.
Cidrs == { c \in [addr : Addrs, size : BlockSizes] :
             (c.addr - (c.addr % c.size)) + c.size - 1 <= MaxAddr }

\* A network without IPAM configuration ('host', 'none').
NoSubnet == [addr |-> -1, size |-> 0]

\* netaddr.IPNetwork.first / .last : the block the CIDR denotes.
First(c) == c.addr - (c.addr % c.size)

Last(c) == First(c) + c.size - 1

\* The CIDR strings the engine reports: network address, no host bits.
Subnets == { c \in Cidrs : c.addr = First(c) }

\* Two subnets share at least one address.
SharesAddress(a, b) == First(a) <= Last(b) /\ First(b) <= Last(a)

\* netaddr.IPNetwork.__eq__ : equal keys (version, first, last).
IPNetworkEq(a, b) == First(a) = First(b) /\ Last(a) = Last(b)

\* netaddr.IPNetwork.next(1) raises IndexError past the address boundary.
NextExceeds(c) == (First(c) + c.size) + (c.size - 1) > MaxAddr

\* netaddr.IPNetwork.next(1) : the adjacent block of equal prefix length.
NextSubnet(c) == [addr |-> First(c) + c.size, size |-> c.size]


(***************************************************************************)
(* State.                                                                  *)
(***************************************************************************)
VARIABLES
    \* --- container engine ---
    networks,             \* networks on the host: [id, name, subnet, visible]
    \* --- Cluster.setup_network / get_available_network_subnet ---
    pc,                   \* position of the orchestrator's main thread
    network_name,         \* Cluster.network_name
    start_subnet,         \* argument of get_available_network_subnet
    subnet,               \* loop variable of get_available_network_subnet
    search_ret,           \* where the running subnet search returns to
    next_network_subnet,  \* setup_network's candidate
    conflicting_network,  \* id parsed from the overlap error
    attempt,              \* the for-loop index of the resolution loop
    error,                \* exception that escaped to the caller, or "none"
    \* --- observations of the run ---
    create_calls,         \* create_network calls issued by this call
    resolve_calls,        \* get_network_subnet calls since the last
                          \* create_network response
    slept,                \* seconds slept since the last create_network response
    resolved,             \* subnet resolved for conflicting_network and not
                          \* yet followed by a creation attempt, or NoSubnet
    last_response,        \* what the last create_network call answered
    was_present,          \* what is_network_present answered for this call
    pre_networks,         \* the networks that existed when the call began
    calls,                \* completed setup_network calls
    search_results,       \* results of successive subnet searches
    env_created,          \* networks created by competing processes
    \* --- container engine, host files ---
    containers,           \* containers on the host
    etc_hosts,            \* lines of /etc/hosts
    \* --- Cluster, NodeGroup, Node ---
    node_groups,          \* Cluster.node_groups: NodeGroups in order
    nodes,                \* Cluster.nodes: the flat node list
    node_cluster,         \* Node.cluster, per node
    container_id,         \* Node.container_id, per node
    ip_address,           \* Node.ip_address, per node
    npc,                  \* position of each node's start thread
    nerror,               \* exception that ended each node's thread
    dispatched,           \* threads started so far by Cluster.start
    answers,              \* whether a node's container answers ssh
    \* --- observations of the run ---
    pre_containers,       \* the containers that existed before Cluster.start
    pre_hosts,            \* /etc/hosts before Cluster.start
    node_hostname,        \* Node.hostname of every node
    volume_args,          \* the volumes argument of every Node
    host_config,          \* Node.host_config: the binds handed to the engine
    engine_calls,         \* the engine calls a Node.start has made, in order
    \* --- remove_all_containers ---
    cgroup,               \* lines of /proc/self/cgroup, split at '/'
    tpc,                  \* position of remove_all_containers
    clusterdock_container_id,
    listing,              \* get_all_containers(), in the order iterated
    idx,                  \* index of the container being processed
    host_folders_to_delete,
    helper_exit,          \* exit code of the last delete helper
    terror,               \* exception that escaped remove_all_containers
    \* --- observations of the run ---
    removed,              \* ids remove_container was called for
    helper_failed,        \* ids whose delete helper exited non-zero
    scheduled,            \* label values put into an rm command
    scheduled_for,        \* the containers whose labels filled an rm command
    \* --- ssh.ssh / ssh.quiet_ssh: execute(task, command, hosts) ---
    fhosts,               \* number of hosts of the fan-out
    fails,                \* hosts on which the task fails
    job,                  \* per host: "queued", "running" or "done"
    outcome,              \* per host: "none", "ok" or "failed"
    fpc,                  \* position of the execute call
    fresult,              \* what execute returned
    ferror,               \* exception that escaped execute
    \* --- Cluster.ssh ---
    cluster_ssh_call,     \* the last Cluster.ssh call and what came of it
    \* --- ClouderaManagerDeployment.validate_services_started ---
    clock,                \* what time() returns, in seconds
    vpc,                  \* position of the validate_services_started call
    timeout_min,
    healthy_time_threshold_sec,
    start_validating_time,
    healthy_time,
    at_fault_services,
    verror,               \* exception that escaped validate_services_started
    \* --- observations of the run ---
    last_poll_began,      \* time() when the latest poll began
    quiet_since           \* start of the latest poll of the unbroken run of
                          \* polls without a service at fault, up to now

netVars == <<pc, network_name, start_subnet, subnet, search_ret,
             next_network_subnet, conflicting_network, attempt, error,
             create_calls, resolve_calls, slept, resolved, last_response,
             was_present, pre_networks, calls, search_results>>

engineNetVars == <<networks, env_created>>

nodeVars == <<containers, etc_hosts, node_groups, nodes, node_cluster,
              container_id, ip_address, npc, nerror, dispatched, answers,
              pre_containers, pre_hosts, node_hostname, volume_args, host_config,
              engine_calls>>

\* The arguments the Nodes were constructed with.
nodeArgs == <<node_hostname, volume_args>>

tearVars == <<cgroup, tpc, clusterdock_container_id, listing, idx,
              host_folders_to_delete, helper_exit, terror, removed,
              helper_failed, scheduled, scheduled_for>>

fanVars == <<fhosts, fails, job, outcome, fpc, fresult, ferror>>

validateVars == <<clock, vpc, timeout_min, healthy_time_threshold_sec,
                  start_validating_time, healthy_time, at_fault_services,
                  verror, last_poll_began, quiet_since>>

\* What Cluster.start and Node.start never touch.
outsideStart == <<tearVars, fanVars, cluster_ssh_call, validateVars>>

\* What setup_network and the subnet search never touch.
otherVars == <<nodeVars, tearVars, fanVars, cluster_ssh_call, validateVars>>

vars == <<networks, env_created, netVars, nodeVars, tearVars, fanVars,
          cluster_ssh_call, validateVars>>

(***************************************************************************)
(* Program constants.                                                      *)
(***************************************************************************)
\* range(0, 5): resolution attempts per overlap error.
RESOLVE_ATTEMPTS == 5
\* sleep(1) after an attempt that did not find the network.
RESOLVE_SLEEP_SEC == 1
\* sleep(3) between two polls of the services.
SLEEP_SEC == 3
\* timeout_min * 60
SECONDS_PER_MINUTE == 60
\* Constants.network.subnet_start, the configured base CIDR.
NETWORK_SUBNET_START == [addr |-> 0, size |-> 2]

DEFAULT_NETWORKS == {"bridge", "host", "none"}

(***************************************************************************)
(* docker_utils: read-only queries.  The read API lists only the networks  *)
(* that are already visible.                                               *)
(***************************************************************************)
get_networks(nets) == { n \in nets : n.visible }

get_network_names(nets) == { n.name : n \in get_networks(nets) }

\* Only the default networks are ever found.
is_network_present_default_only(name, nets) ==
    name \in (get_network_names(nets) \cap {"bridge", "host", "none"})

is_network_present(name, nets) == name \in get_network_names(nets)

\* Networks whose IPAM Config is empty are left out.
get_network_subnets(nets) ==
    { n.subnet : n \in { m \in get_networks(nets) : m.subnet # NoSubnet } }

\* The CIDR string looked up among IPNetwork objects: never equal.
overlaps_network_subnet_str(c, nets) == c \in {}

\* A candidate an earlier search returned counts as in use.
overlaps_network_subnet_reserving(c, nets) ==
    \/ \E s \in get_network_subnets(nets) : IPNetworkEq(c, s)
    \/ \E i \in 1 .. Len(search_results) : search_results[i] = c

\* IPNetwork(subnet) in subnets
overlaps_network_subnet(c, nets) ==
    \E s \in get_network_subnets(nets) : IPNetworkEq(c, s)

\* Outcome of get_network_subnet: the subnet, or NetworkNotFoundException
\* whose message starts "Cannot find network".
get_network_subnet(network_id, nets) ==
    IF \E n \in get_networks(nets) : n.id = network_id
    THEN [found |-> TRUE,
          subnet |-> (CHOOSE n \in get_networks(nets) : n.id = network_id).subnet,
          cannot_find |-> FALSE]
    ELSE [found |-> FALSE, subnet |-> NoSubnet, cannot_find |-> TRUE]

(***************************************************************************)
(* The engine's own rule: a bridge network may not share an address with   *)
(* an existing one, visible through the read API or not yet.               *)
(***************************************************************************)
EngineConflicts(c, nets) ==
    { n \in nets : n.subnet # NoSubnet /\ SharesAddress(c, n.subnet) }

\* What create_network may answer for candidate c: created, an APIError
\* whose explanation reads "... conflicts with network <id> ...: networks
\* have overlapping IPv4", or an APIError with any other explanation.
EngineCreateResponses(c, nets) ==
    { [kind |-> "APIError", overlapping |-> TRUE, conflicts_with |-> n.id] :
          n \in EngineConflicts(c, nets) }
    \cup { [kind |-> "APIError", overlapping |-> FALSE, conflicts_with |-> -1] }
    \cup ( IF EngineConflicts(c, nets) = {}
           THEN { [kind |-> "created", overlapping |-> FALSE, conflicts_with |-> -1] }
           ELSE {} )

NetRec(id, name, s, visible) ==
    [id |-> id, name |-> name, subnet |-> s, visible |-> visible]

\* The 'host' network: no IPAM configuration.
HostNet == NetRec(0, "host", NoSubnet, TRUE)

PairwiseDisjoint(S) ==
    \A a \in S : \A b \in S :
        a # b => (a.name # b.name /\ ~SharesAddress(a.subnet, b.subnet))

NamedNets(names) ==
    { NetRec(CASE nm = "bridge" -> 1 [] nm = "net1" -> 2 [] OTHER -> 3,
             nm, s, TRUE) : nm \in names, s \in Subnets }

\* The sets of networks a host can hold before the orchestrator runs.
InitNetworkSets(names) ==
    { S \cup {HostNet} : S \in { T \in SUBSET NamedNets(names) : PairwiseDisjoint(T) } }

(***************************************************************************)
(* get_available_network_subnet: one loop iteration per step (each         *)
(* iteration reads the engine's network list anew).                        *)
(***************************************************************************)
get_available_network_subnet_step ==
    /\ pc = "search"
    /\ IF overlaps_network_subnet(subnet, networks)
       THEN IF NextExceeds(subnet)
            THEN /\ pc' = "raised"
                 /\ error' = "IndexError"
                 /\ UNCHANGED <<subnet, next_network_subnet, search_results>>
            ELSE /\ subnet' = NextSubnet(subnet)
                 /\ UNCHANGED <<pc, error, next_network_subnet, search_results>>
       ELSE /\ pc' = search_ret
            /\ next_network_subnet' = subnet
            /\ search_results' = IF search_ret = "searched"
                                 THEN Append(search_results, subnet)
                                 ELSE search_results
            /\ UNCHANGED <<subnet, error>>
    /\ UNCHANGED <<network_name, start_subnet, search_ret, conflicting_network,
                   attempt, create_calls, resolve_calls, slept, resolved,
                   last_response, was_present, pre_networks, calls>>
    /\ UNCHANGED engineNetVars
    /\ UNCHANGED otherVars

(***************************************************************************)
(* Cluster.setup_network.                                                  *)
(***************************************************************************)
\* Every APIError taken for a subnet overlap.
IsOverlapError_any(resp) == TRUE

\* 'networks have overlapping IPv4' in api_error.explanation
IsOverlapError(resp) == resp.overlapping

\* 'Cannot find network' in network_not_found_exception.message
IsCannotFind(r) == r.cannot_find

\* One attempt too many.
MoreAttempts_off_by_one(k) == k <= RESOLVE_ATTEMPTS

\* for _ in range(0, 5): whether another attempt follows attempt number k.
MoreAttempts(k) == k < RESOLVE_ATTEMPTS

\* The seconds slept after an attempt that did not find the network.
SleepAfterMiss == RESOLVE_SLEEP_SEC

\* if not is_network_present(self.network_name): ... get_available_network_subnet()
setup_network_call ==
    /\ pc = "idle"
    /\ pre_networks' = networks
    /\ was_present' = is_network_present(network_name, networks)
    /\ create_calls' = 0
    /\ resolve_calls' = 0
    /\ slept' = 0
    /\ resolved' = NoSubnet
    /\ IF is_network_present(network_name, networks)
       THEN /\ pc' = "sn_returned"
            /\ calls' = calls + 1
            /\ UNCHANGED <<start_subnet, subnet, search_ret>>
       ELSE /\ pc' = "search"
            /\ start_subnet' = NETWORK_SUBNET_START
            /\ subnet' = NETWORK_SUBNET_START
            /\ search_ret' = "create"
            /\ UNCHANGED calls
    /\ last_response' = "none"
    /\ UNCHANGED <<network_name, next_network_subnet, conflicting_network,
                   attempt, error, search_results>>
    /\ UNCHANGED engineNetVars
    /\ UNCHANGED otherVars

\* client.create_network(...) and the except / else clauses around it.
create_network ==
    /\ pc = "create"
    /\ create_calls < MaxCreates
    /\ create_calls' = create_calls + 1
    /\ resolved' = NoSubnet
    /\ resolve_calls' = 0
    /\ slept' = 0
    /\ \E resp \in EngineCreateResponses(next_network_subnet, networks) :
       /\ last_response' = ( IF resp.kind = "created" THEN "created"
                             ELSE IF resp.overlapping THEN "overlap" ELSE "other" )
       /\ IF resp.kind = "created"
         THEN /\ networks' = networks \cup
                    { NetRec(20 + create_calls, network_name,
                             [addr |-> First(next_network_subnet),
                              size |-> next_network_subnet.size], TRUE) }
              /\ pc' = "sn_returned"
              /\ calls' = calls + 1
              /\ UNCHANGED <<conflicting_network, attempt, error>>
         ELSE IF ~IsOverlapError(resp)
         THEN /\ pc' = "raised"
              /\ error' = "APIError"
              /\ UNCHANGED <<networks, calls, conflicting_network, attempt>>
         ELSE /\ conflicting_network' = resp.conflicts_with
              /\ attempt' = 0
              /\ pc' = "resolve"
              /\ UNCHANGED <<networks, calls, error>>
    /\ UNCHANGED <<network_name, start_subnet, subnet, search_ret,
                   next_network_subnet, was_present, pre_networks,
                   search_results, env_created>>
    /\ UNCHANGED otherVars

\* The search starts over from the default start subnet.
ResolveStart_default(s) == NETWORK_SUBNET_START

\* get_available_network_subnet(get_network_subnet(conflicting_network)):
\* the search starts at the conflicting network's subnet.
ResolveStart(s) == s

\* One iteration of the resolution loop: get_network_subnet(conflicting_network),
\* then the subnet search from it (break), or sleep(1) when it is not found.
resolve_conflicting_network ==
    /\ pc = "resolve"
    /\ MoreAttempts(attempt)
    /\ resolve_calls' = resolve_calls + 1
    /\ LET r == get_network_subnet(conflicting_network, networks) IN
         IF r.found
         THEN /\ resolved' = r.subnet
              /\ start_subnet' = ResolveStart(r.subnet)
              /\ subnet' = ResolveStart(r.subnet)
              /\ search_ret' = "create"
              /\ pc' = "search"
              /\ UNCHANGED <<attempt, slept, error>>
         ELSE IF ~IsCannotFind(r)
         THEN /\ pc' = "raised"
              /\ error' = "NetworkNotFoundException"
              /\ UNCHANGED <<resolved, start_subnet, subnet, search_ret, attempt, slept>>
         ELSE /\ slept' = slept + SleepAfterMiss
              /\ attempt' = attempt + 1
              /\ pc' = IF MoreAttempts(attempt + 1) THEN "resolve" ELSE "create"
              /\ UNCHANGED <<resolved, start_subnet, subnet, search_ret, error>>
    /\ UNCHANGED <<network_name, next_network_subnet, conflicting_network,
                   create_calls, last_response, was_present, pre_networks, calls,
                   search_results>>
    /\ UNCHANGED engineNetVars
    /\ UNCHANGED otherVars

(***************************************************************************)
(* The environment: a competing process creates a network; the engine      *)
(* knows it at once, the read API shows it later.                          *)
(***************************************************************************)
EnvCreateNetwork ==
    /\ env_created < MaxEnvNets
    /\ pc \in {"search", "create", "resolve"}
    /\ \E s \in Subnets :
         /\ EngineConflicts(s, networks) = {}
         /\ networks' = networks \cup { NetRec(10 + env_created, "other", s, FALSE) }
    /\ env_created' = env_created + 1
    /\ UNCHANGED netVars
    /\ UNCHANGED otherVars

EnvPublishNetwork ==
    /\ \E n \in networks :
         /\ ~n.visible
         /\ networks' = (networks \ {n}) \cup { [n EXCEPT !.visible = TRUE] }
    /\ UNCHANGED env_created
    /\ UNCHANGED netVars
    /\ UNCHANGED otherVars

(***************************************************************************)
(* Cluster, NodeGroup, Node.                                               *)
(***************************************************************************)
Nodes == {"n1", "n2", "n3"}

\* Python's None for a container id or a cluster reference.
None == "None"

\* Python's None for an address.
NoAddress == [subnet |-> NoSubnet, host |-> 0]

\* File-system paths are sequences of tokens; "/" is the separator.
LOCALTIME == <<"/", "etc", "/", "localtime">>

\* Node.hostname, as passed to Node.__init__.
NodeHostname(n) == node_hostname[n]

\* kwargs.get('volumes', []): (host path, container path) pairs, in order.
NodeVolumeArgs(n) == volume_args[n]

\* self.volumes = [{'/etc/localtime': '/etc/localtime'}] + kwargs.get('volumes', [])
NodeVolumes(n) == << [host |-> LOCALTIME, cont |-> LOCALTIME] >> \o NodeVolumeArgs(n)

\* self.fqdn = "{0}.{1}".format(hostname, network)
Fqdn(hostname, network) == <<hostname, network>>

\* Config.Hostname as the engine reports it: the name up to the first dot,
\* not the fully qualified domain name.
get_container_hostname(c) == c.hostname[1]

RECURSIVE Flatten(_)
\* [node for node_group in self.node_groups for node in node_group.nodes]
Flatten(groups) ==
    IF groups = << >> THEN << >>
    ELSE Head(groups).nodes \o Flatten(Tail(groups))

\* "{0}:{1}:rw".format(host_location, volume[host_location])
BindSpec(v) == v.host \o <<":">> \o v.cont \o <<":", "rw">>

\* The caller's volumes only.
get_binds_caller_only(n) ==
    [i \in 1 .. Len(NodeVolumeArgs(n)) |-> BindSpec(NodeVolumeArgs(n)[i])]

\* Node._get_binds: one bind per volume of self.volumes, in order.
get_binds(n) ==
    [i \in 1 .. Len(NodeVolumes(n)) |-> BindSpec(NodeVolumes(n)[i])]

\* Every volume gets a label.
NodeLabels_unfiltered(n) ==
    [i \in 1 .. Len(NodeVolumes(n)) |-> [key |-> [text |-> "volume", index |-> i],
                                          value |-> NodeVolumes(n)[i].host]]

\* 'labels': {"volume{i}": host path} over the volumes other than
\* /etc/localtime, numbered from 1.
NodeLabels(n) ==
    LET hosts == SelectSeq(NodeVolumes(n), LAMBDA v : v.host # LOCALTIME)
    IN  [i \in 1 .. Len(hosts) |-> [key |-> [text |-> "volume", index |-> i],
                                    value |-> hosts[i].host]]

\* The container identifier the engine hands out for node n's container.
NewContainerId(n) == CASE n = "n1" -> "c1" [] n = "n2" -> "c2" [] OTHER -> "c3"

ContainerRec(id, hostname, network, state, ip, labels) ==
    [id |-> id, hostname |-> hostname, network |-> network, state |-> state,
     ip |-> ip, labels |-> labels]

\* The container with identifier id, changed by f.
UpdateContainer(cs, id, f(_)) ==
    { IF c.id = id THEN f(c) ELSE c : c \in cs }

\* network["Containers"]: the containers with an endpoint in the network.
NetworkContainers(name, cs) == { c \in cs : c.network = name /\ c.state = "running" }

\* No hostname is reported.
get_network_container_hostnames_none(name, nets, cs) == {}

\* get_network_container_hostnames(name)
get_network_container_hostnames(name, nets, cs) ==
    IF name \in get_network_names(nets)
    THEN { get_container_hostname(c) : c \in NetworkContainers(name, cs) }
    ELSE {}

\* The subnet of the visible network called name.
SubnetOfNetwork(name, nets) ==
    (CHOOSE n \in nets : n.name = name /\ n.visible).subnet

\* The address the engine assigns at start: the lowest free host number.
AllocAddress(name, nets, cs) ==
    LET used == { c.ip.host : c \in NetworkContainers(name, cs) }
        k == CHOOSE i \in 2 .. (2 + Cardinality(cs)) :
                 i \notin used /\ \A j \in 2 .. (i - 1) : j \in used
    IN  [subnet |-> SubnetOfNetwork(name, nets), host |-> k]

\* get_container_ip_address(container_id, network)
get_container_ip_address(id, network, cs) ==
    (CHOOSE c \in cs : c.id = id).ip

\* The parameters is_container_reachable declares.
is_container_reachable_params == {"container_id", "network"}

\* The keyword arguments Node.start passes to is_container_reachable.
NodeStartProbeKwargs == {"container_id", "network", "ssh_key"}

\* Python raises TypeError for a keyword argument the callee does not declare.
CallAccepted(kwargs, params) == kwargs \subseteq params

\* is_container_reachable: quiet_ssh("whoami") succeeded, or any exception
\* (BaseException) collapsed into False.
is_container_reachable(ssh_succeeded) == ssh_succeeded

\* "{0}   {1}.{2} # Added by clusterdock" for one node
HostsLine(ip, hostname, network) == [ip |-> ip, fqdn |-> Fqdn(hostname, network)]

(***************************************************************************)
(* Cluster.start: the main thread.                                         *)
(***************************************************************************)
\* The index in the flat node list of the first node whose hostname is among
\* hostnames, or 0.
FirstCollision(flat, hostnames) ==
    IF \E i \in 1 .. Len(flat) : NodeHostname(flat[i]) \in hostnames
    THEN CHOOSE i \in 1 .. Len(flat) :
             /\ NodeHostname(flat[i]) \in hostnames
             /\ \A j \in 1 .. (i - 1) : NodeHostname(flat[j]) \notin hostnames
    ELSE 0

\* network_container_hostnames = get_network_container_hostnames(...), then
\* the loop that sets node.cluster and raises on the first collision.
check_hostnames ==
    /\ pc = "sn_returned"
    /\ LET hostnames == get_network_container_hostnames(network_name, networks, containers)
           k == FirstCollision(nodes, hostnames)
       IN  IF k > 0
           THEN /\ node_cluster' = [n \in Nodes |->
                        IF \E i \in 1 .. k : nodes[i] = n THEN "cluster"
                        ELSE node_cluster[n]]
                /\ pc' = "raised"
                /\ error' = "HostnameCollision"
           ELSE /\ node_cluster' = [n \in Nodes |->
                        IF \E i \in 1 .. Len(nodes) : nodes[i] = n THEN "cluster"
                        ELSE node_cluster[n]]
                /\ pc' = IF Len(nodes) = 0 THEN "join" ELSE "dispatch"
                /\ UNCHANGED error
    /\ dispatched' = 0
    /\ UNCHANGED <<network_name, start_subnet, subnet, search_ret,
                   next_network_subnet, conflicting_network, attempt,
                   create_calls, resolve_calls, slept, resolved, last_response,
                   was_present, pre_networks, calls, search_results>>
    /\ UNCHANGED engineNetVars
    /\ UNCHANGED <<containers, etc_hosts, node_groups, nodes, container_id,
                   ip_address, npc, nerror, answers, pre_containers, pre_hosts>>
    /\ UNCHANGED <<nodeArgs, host_config, engine_calls>>
    /\ UNCHANGED outsideStart

mainFrame == <<network_name, start_subnet, subnet, search_ret,
               next_network_subnet, conflicting_network, attempt, error,
               create_calls, resolve_calls, slept, resolved, last_response,
               was_present, pre_networks, calls, search_results>>

\* thread.start() for the next node of the flat list, then sleep(0.25).
dispatch_thread ==
    /\ pc = "dispatch"
    /\ dispatched < Len(nodes)
    /\ npc' = [npc EXCEPT ![nodes[dispatched + 1]] = "create"]
    /\ dispatched' = dispatched + 1
    /\ pc' = IF dispatched + 1 = Len(nodes) THEN "join" ELSE "dispatch"
    /\ UNCHANGED mainFrame
    /\ UNCHANGED engineNetVars
    /\ UNCHANGED <<containers, etc_hosts, node_groups, nodes, node_cluster,
                   container_id, ip_address, nerror, answers, pre_containers,
                   pre_hosts>>
    /\ UNCHANGED <<nodeArgs, host_config, engine_calls>>
    /\ UNCHANGED outsideStart

\* A thread has ended, normally or by an exception.
ThreadEnded(n) == npc[n] \in {"reachable", "failed"}

\* Only the first thread is waited for.
AllJoined_first_only == ThreadEnded(nodes[1])

\* thread.join() returns for every thread.
AllJoined == \A i \in 1 .. Len(nodes) : ThreadEnded(nodes[i])

\* for thread in threads: thread.join(); then the lines are appended to
\* /etc/hosts, one per node of the flat list.
join_and_write_hosts ==
    /\ pc = "join"
    /\ AllJoined
    /\ etc_hosts' = etc_hosts \o
           [i \in 1 .. Len(nodes) |->
               HostsLine(ip_address[nodes[i]], NodeHostname(nodes[i]), network_name)]
    /\ pc' = "started"
    /\ UNCHANGED mainFrame
    /\ UNCHANGED engineNetVars
    /\ UNCHANGED <<containers, node_groups, nodes, node_cluster, container_id,
                   ip_address, npc, nerror, dispatched, answers, pre_containers,
                   pre_hosts>>
    /\ UNCHANGED <<nodeArgs, host_config, engine_calls>>
    /\ UNCHANGED outsideStart

(***************************************************************************)
(* Node.start: one thread per node, one engine call per step.              *)
(***************************************************************************)
threadFrame == <<etc_hosts, node_groups, nodes, node_cluster, dispatched,
                 answers, pre_containers, pre_hosts, nodeArgs, outsideStart>>

\* The container is attached to the target network without leaving bridge.
StepAfter_skip_disconnect(step) ==
    CASE step = "create" -> "connect"
      [] step = "disconnect" -> "connect"
      [] step = "connect" -> "start"
      [] step = "start" -> "read_ip"
      [] OTHER -> "probe"

\* The statement of Node.start that follows a statement.
StepAfter(step) ==
    CASE step = "create" -> "disconnect"
      [] step = "disconnect" -> "connect"
      [] step = "connect" -> "start"
      [] step = "start" -> "read_ip"
      [] OTHER -> "probe"

\* client.create_container(**container_configs)['Id'], or the engine's error.
node_create_container(n) ==
    /\ npc[n] = "create"
    /\ \E created \in BOOLEAN :
         IF created
         THEN /\ containers' = containers \cup
                    { ContainerRec(NewContainerId(n),
                                   Fqdn(NodeHostname(n), network_name),
                                   "bridge", "created", NoAddress, NodeLabels(n)) }
              /\ container_id' = [container_id EXCEPT ![n] = NewContainerId(n)]
              /\ npc' = [npc EXCEPT ![n] = StepAfter("create")]
              /\ UNCHANGED nerror
         ELSE /\ npc' = [npc EXCEPT ![n] = "failed"]
              /\ nerror' = [nerror EXCEPT ![n] = "APIError"]
              /\ UNCHANGED <<containers, container_id>>
    /\ host_config' = [host_config EXCEPT ![n] = get_binds(n)]
    /\ engine_calls' = [engine_calls EXCEPT ![n] = Append(@, "create")]
    /\ UNCHANGED ip_address
    /\ UNCHANGED threadFrame
    /\ UNCHANGED <<networks, env_created, netVars>>

\* client.disconnect_container_from_network(container, net_id='bridge')
node_disconnect_bridge(n) ==
    /\ npc[n] = "disconnect"
    /\ containers' = UpdateContainer(containers, container_id[n],
                         LAMBDA c : [c EXCEPT !.network = None])
    /\ npc' = [npc EXCEPT ![n] = StepAfter("disconnect")]
    /\ engine_calls' = [engine_calls EXCEPT ![n] = Append(@, "disconnect")]
    /\ UNCHANGED <<container_id, ip_address, nerror, host_config>>
    /\ UNCHANGED threadFrame
    /\ UNCHANGED <<networks, env_created, netVars>>

\* client.connect_container_to_network(container, net_id=self.network,
\*                                     aliases=[self.hostname])
node_connect_network(n) ==
    /\ npc[n] = "connect"
    /\ containers' = UpdateContainer(containers, container_id[n],
                         LAMBDA c : [c EXCEPT !.network = network_name])
    /\ npc' = [npc EXCEPT ![n] = StepAfter("connect")]
    /\ engine_calls' = [engine_calls EXCEPT ![n] = Append(@, "connect")]
    /\ UNCHANGED <<container_id, ip_address, nerror, host_config>>
    /\ UNCHANGED threadFrame
    /\ UNCHANGED <<networks, env_created, netVars>>

\* client.start(container): the engine assigns the address.
node_start_container(n) ==
    /\ npc[n] = "start"
    /\ containers' = UpdateContainer(containers, container_id[n],
                         LAMBDA c : [c EXCEPT !.state = "running",
                                              !.ip = AllocAddress(c.network, networks, containers)])
    /\ npc' = [npc EXCEPT ![n] = StepAfter("start")]
    /\ engine_calls' = [engine_calls EXCEPT ![n] = Append(@, "start")]
    /\ UNCHANGED <<container_id, ip_address, nerror, host_config>>
    /\ UNCHANGED threadFrame
    /\ UNCHANGED <<networks, env_created, netVars>>

\* self.ip_address = get_container_ip_address(container_id, network)
node_read_ip_address(n) ==
    /\ npc[n] = "read_ip"
    /\ ip_address' = [ip_address EXCEPT ![n] =
                         get_container_ip_address(container_id[n], network_name, containers)]
    /\ npc' = [npc EXCEPT ![n] = StepAfter("read_ip")]
    /\ engine_calls' = [engine_calls EXCEPT ![n] = Append(@, "read_ip")]
    /\ UNCHANGED <<containers, container_id, nerror, host_config>>
    /\ UNCHANGED threadFrame
    /\ UNCHANGED <<networks, env_created, netVars>>

\* The container of the failed node is removed again.
EngineAfterNodeFailure_rollback(cs, id) == { c \in cs : c.id # id }

\* Node.start has no except or finally clause: the exception leaves the
\* engine as it is.
EngineAfterNodeFailure(cs, id) == cs

\* if not is_container_reachable(container_id=..., network=..., ssh_key=...):
\*     raise Exception("Timed out waiting ...")
node_probe_reachable(n) ==
    /\ npc[n] = "probe"
    /\ IF ~CallAccepted(NodeStartProbeKwargs, is_container_reachable_params)
       THEN /\ npc' = [npc EXCEPT ![n] = "failed"]
            /\ nerror' = [nerror EXCEPT ![n] = "TypeError"]
       ELSE IF ~is_container_reachable(answers[n])
       THEN /\ npc' = [npc EXCEPT ![n] = "failed"]
            /\ nerror' = [nerror EXCEPT ![n] = "ReachabilityTimeout"]
       ELSE /\ npc' = [npc EXCEPT ![n] = "reachable"]
            /\ UNCHANGED nerror
    /\ containers' = IF npc'[n] = "failed"
                     THEN EngineAfterNodeFailure(containers, container_id[n])
                     ELSE containers
    /\ engine_calls' = [engine_calls EXCEPT ![n] = Append(@, "probe")]
    /\ UNCHANGED <<container_id, ip_address, host_config>>
    /\ UNCHANGED threadFrame
    /\ UNCHANGED <<networks, env_created, netVars>>

node_start(n) ==
    \/ node_create_container(n)
    \/ node_disconnect_bridge(n)
    \/ node_connect_network(n)
    \/ node_start_container(n)
    \/ node_read_ip_address(n)
    \/ node_probe_reachable(n)

\* The hostnames and volumes the nodes are declared with.
DefaultHostnames ==
    [n \in Nodes |-> CASE n = "n1" -> "node-1" [] n = "n2" -> "node-2" [] OTHER -> "node-3"]

DefaultVolumeArgs ==
    [n \in Nodes |->
        CASE n = "n1" -> << [host |-> <<"/", "data", "/", "a">>, cont |-> <<"/", "mnt">>] >>
          [] OTHER -> << >>]

\* Cluster.start has not been called on the nodes.
NodeUnstarted ==
    /\ host_config = [n \in Nodes |-> << >>]
    /\ engine_calls = [n \in Nodes |-> << >>]
    /\ node_groups = << [name |-> "primary", nodes |-> <<"n1">>],
                        [name |-> "secondary", nodes |-> <<"n2", "n3">>] >>
    /\ nodes = Flatten(node_groups)
    /\ node_cluster = [n \in Nodes |-> None]
    /\ container_id = [n \in Nodes |-> None]
    /\ ip_address = [n \in Nodes |-> NoAddress]
    /\ npc = [n \in Nodes |-> "unstarted"]
    /\ nerror = [n \in Nodes |-> "none"]
    /\ dispatched = 0
    /\ pre_containers = containers
    /\ pre_hosts = etc_hosts

\* The state of the Cluster, NodeGroup and Node objects after construction.
NodeDefaults ==
    /\ node_hostname = DefaultHostnames
    /\ volume_args = DefaultVolumeArgs
    /\ NodeUnstarted

\* A host with no container and an /etc/hosts that holds one line.
QuietHost ==
    /\ containers = {}
    /\ etc_hosts = << HostsLine([subnet |-> NoSubnet, host |-> 1], "localhost", "localdomain") >>
    /\ answers = [n \in Nodes |-> TRUE]
    /\ NodeDefaults

(***************************************************************************)
(* docker_utils.remove_all_containers.                                     *)
(***************************************************************************)
\* Whether the path holds a separator.
HasSeparator(p) == \E i \in 1 .. Len(p) : p[i] = "/"

\* The position of the last separator of a path that holds one.
LastSeparator(p) ==
    CHOOSE i \in 1 .. Len(p) : p[i] = "/" /\ \A j \in (i + 1) .. Len(p) : p[j] # "/"

\* str.rsplit('/', 1): the path split at its last separator; a path without
\* separator is returned whole.
RSplit1(p) ==
    IF HasSeparator(p)
    THEN << SubSeq(p, 1, LastSeparator(p) - 1), SubSeq(p, LastSeparator(p) + 1, Len(p)) >>
    ELSE << p >>

\* 'volume' in key
KeyMentionsVolume(key) == key.text \in {"volume", "old_volume"}

\* Every label that mentions 'volume' is kept.
KeepsLabel_no_root_guard(label) == KeyMentionsVolume(label.key)

\* 'volume' in key and value.rsplit('/', 1)[0]
KeepsLabel(label) ==
    KeyMentionsVolume(label.key) /\ RSplit1(label.value)[1] # << >>

\* host_folders_to_delete: the values of the labels kept, in iteration order.
HostFoldersToDelete(labels) ==
    LET kept == SelectSeq(labels, KeepsLabel)
    IN  [i \in 1 .. Len(kept) |-> kept[i].value]

\* binds: "{parent}:/tmp{i}"
HelperBinds(folders) ==
    [i \in 1 .. Len(folders) |->
        [host |-> RSplit1(folders[i])[1], cont |-> <<"/", "tmp", i>>]]

\* rm_command: ['rm', '-r'] + [join("/tmp{i}", last component)]
RmCommand(folders) ==
    [i \in 1 .. Len(folders) |->
        <<"/", "tmp", i, "/">> \o RSplit1(folders[i])[Len(RSplit1(folders[i]))]]

\* 'docker' in cgroup
LineMentionsDocker(line) ==
    \E i \in 1 .. Len(line) : line[i] = "docker"

\* The last segment of the first line is taken, whatever the line mentions.
get_clusterdock_container_id_first_line(lines) ==
    [found |-> TRUE, id |-> lines[1][Len(lines[1])]]

\* get_clusterdock_container_id: the text after the last '/' of the first
\* line that mentions docker, or ContainerNotFoundException.
get_clusterdock_container_id(lines) ==
    IF \E i \in 1 .. Len(lines) : LineMentionsDocker(lines[i])
    THEN LET k == CHOOSE i \in 1 .. Len(lines) :
                      /\ LineMentionsDocker(lines[i])
                      /\ \A j \in 1 .. (i - 1) : ~LineMentionsDocker(lines[j])
         IN  [found |-> TRUE, id |-> lines[k][Len(lines[k])]]
    ELSE [found |-> FALSE, id |-> None]

\* Every container is removed, the orchestrator's own too.
ShouldRemove_always(id, own) == TRUE

\* if container['Id'] != clusterdock_container_id
ShouldRemove(id, own) == id # own

\* The disposable busybox container that runs the rm command.
HelperContainer == ContainerRec("helper", Fqdn("helper", "bridge"), "bridge",
                                "created", NoAddress, << >>)

\* The helper is removed only when it exited with code 0.
AfterHelperWait_keep_failed(cs, code) ==
    IF code = 0 THEN cs \ {HelperContainer} ELSE cs

\* client.remove_container(container=container_id), whatever the exit code.
AfterHelperWait(cs, code) == cs \ {HelperContainer}

\* client.containers(all=True): every container of the host, each once, in
\* the order the engine lists them.
get_all_containers(cs) ==
    { l \in [1 .. Cardinality(cs) -> cs] :
        \A i, j \in 1 .. Cardinality(cs) : l[i] = l[j] => i = j }

tearFrame == <<networks, env_created, netVars, etc_hosts, node_groups, nodes,
               node_cluster, container_id, ip_address, npc, nerror, dispatched,
               answers, pre_containers, pre_hosts, nodeArgs, host_config,
               engine_calls, cgroup, fanVars, cluster_ssh_call, validateVars>>

\* clusterdock_container_id = get_clusterdock_container_id();
\* get_all_containers()
teardown_begin ==
    /\ tpc = "idle"
    /\ LET own == get_clusterdock_container_id(cgroup) IN
         IF ~own.found
         THEN /\ tpc' = "raised"
              /\ terror' = "ContainerNotFoundException"
              /\ UNCHANGED <<clusterdock_container_id, listing, idx>>
         ELSE /\ clusterdock_container_id' = own.id
              /\ listing' \in get_all_containers(containers)
              /\ idx' = 1
              /\ tpc' = IF containers = {} THEN "returned" ELSE "loop"
              /\ UNCHANGED terror
    /\ UNCHANGED <<containers, host_folders_to_delete, helper_exit,
                   removed, helper_failed, scheduled, scheduled_for>>
    /\ UNCHANGED tearFrame

\* host_folders_to_delete = [...]; if non-empty, the helper is created with
\* the parents bound and started.
teardown_schedule_delete ==
    /\ tpc = "loop"
    /\ host_folders_to_delete' = HostFoldersToDelete(listing[idx].labels)
    /\ IF HostFoldersToDelete(listing[idx].labels) # << >>
       THEN /\ containers' = containers \cup {HelperContainer}
            /\ scheduled' = scheduled \cup
                   { host_folders_to_delete'[i] : i \in 1 .. Len(host_folders_to_delete') }
            /\ scheduled_for' = scheduled_for \cup {listing[idx].id}
            /\ tpc' = "helper"
       ELSE /\ tpc' = "remove"
            /\ UNCHANGED <<containers, scheduled, scheduled_for>>
    /\ UNCHANGED <<clusterdock_container_id, listing, idx, helper_exit, terror,
                   removed, helper_failed>>
    /\ UNCHANGED tearFrame

\* client.logs, client.wait: a non-zero exit code is logged; then
\* client.remove_container(helper).
teardown_wait_helper ==
    /\ tpc = "helper"
    /\ \E code \in {0, 1} :
         /\ helper_exit' = code
         /\ helper_failed' = IF code # 0
                              THEN helper_failed \cup {listing[idx].id}
                              ELSE helper_failed
    /\ containers' = AfterHelperWait(containers, helper_exit')
    /\ tpc' = "remove"
    /\ UNCHANGED <<clusterdock_container_id, listing, idx,
                   host_folders_to_delete, terror, removed, scheduled,
                   scheduled_for>>
    /\ UNCHANGED tearFrame

\* if container['Id'] != clusterdock_container_id: remove_container(...)
teardown_remove_container ==
    /\ tpc = "remove"
    /\ IF ShouldRemove(listing[idx].id, clusterdock_container_id)
       THEN /\ containers' = { c \in containers : c.id # listing[idx].id }
            /\ removed' = removed \cup {listing[idx].id}
       ELSE UNCHANGED <<containers, removed>>
    /\ idx' = idx + 1
    /\ tpc' = IF idx + 1 > Len(listing) THEN "returned" ELSE "loop"
    /\ UNCHANGED <<clusterdock_container_id, listing, host_folders_to_delete,
                   helper_exit, terror, helper_failed, scheduled,
                   scheduled_for>>
    /\ UNCHANGED tearFrame

\* remove_all_containers has not been called.
TearIdle ==
    /\ tpc = "idle"
    /\ clusterdock_container_id = None
    /\ listing = << >>
    /\ idx = 0
    /\ host_folders_to_delete = << >>
    /\ helper_exit = 0
    /\ terror = "none"
    /\ removed = {}
    /\ helper_failed = {}
    /\ scheduled = {}
    /\ scheduled_for = {}

\* The other operations never read /proc/self/cgroup.
TearDefaults ==
    /\ cgroup = << >>
    /\ TearIdle

(***************************************************************************)
(* Cluster.ssh, NodeGroup.add_node, Cluster.__iter__ and Cluster.__len__.  *)
(***************************************************************************)
\* The parameters ssh.ssh declares.
ssh_params == {"command", "hosts"}

\* The keyword arguments Cluster.ssh passes to ssh.ssh.
ClusterSshKwargs == {"command", "hosts", "ssh_key"}

\* The nodes argument of Cluster.ssh: None, or a list of Node instances.
SshNodesArgs ==
    { [given |-> FALSE, nodes |-> {}] } \cup { [given |-> TRUE, nodes |-> S] : S \in SUBSET Nodes }

\* `not nodes`: None and the empty list are both false.
NotNodes(arg) == ~arg.given \/ arg.nodes = {}

\* [node.ip_address for node in self.nodes if not nodes or node in nodes]
ClusterSshHosts(flat, arg) ==
    LET picked == SelectSeq(flat, LAMBDA n : NotNodes(arg) \/ n \in arg.nodes)
    IN  [i \in 1 .. Len(picked) |-> ip_address[picked[i]]]

NoSshCall == [made |-> FALSE, arg |-> [given |-> FALSE, nodes |-> {}],
              hosts |-> << >>, targets |-> << >>, error |-> "none"]

\* Cluster.__iter__ / Cluster.__len__
ClusterIter == nodes

ClusterLen == Len(nodes)

groupFrame == <<networks, env_created, netVars, containers, etc_hosts,
                node_cluster, container_id, ip_address, npc, nerror, dispatched,
                answers, pre_containers, pre_hosts, nodeArgs, host_config,
                engine_calls, tearVars, fanVars, validateVars>>

\* Cluster.ssh(command, nodes): the host list is built, then ssh.ssh is
\* called with command, hosts and ssh_key.
cluster_ssh ==
    /\ \E arg \in SshNodesArgs :
         LET hosts == ClusterSshHosts(nodes, arg) IN
           cluster_ssh_call' =
             IF CallAccepted(ClusterSshKwargs, ssh_params)
             THEN [made |-> TRUE, arg |-> arg, hosts |-> hosts,
                   targets |-> hosts, error |-> "none"]
             ELSE [made |-> TRUE, arg |-> arg, hosts |-> hosts,
                   targets |-> << >>, error |-> "TypeError"]
    /\ UNCHANGED <<node_groups, nodes>>
    /\ UNCHANGED groupFrame

\* NodeGroup.add_node(node): self.nodes.append(node)
add_node(g, n) ==
    /\ Len(Flatten(node_groups)) < MaxMembers
    /\ node_groups' = [node_groups EXCEPT ![g].nodes = Append(@, n)]
    /\ UNCHANGED <<nodes, cluster_ssh_call>>
    /\ UNCHANGED groupFrame

(***************************************************************************)
(* ssh.py: execute() of a task decorated @parallel(pool_size=8).           *)
(***************************************************************************)
\* @parallel(pool_size=8)
POOL_SIZE == 8

\* hosts, in the order given to execute
FanHosts == 1 .. fhosts

Running == { h \in FanHosts : job[h] = "running" }

Queued == { h \in FanHosts : job[h] = "queued" }

\* No limit on the number of workers.
WorkerSlotFree_unbounded(running) == TRUE

\* A job is started while fewer than pool_size workers are running.
WorkerSlotFree(running) == Cardinality(running) < POOL_SIZE

\* The queue stops at the first failed job.
QueueDrained_fail_fast(j) ==
    /\ \A h \in DOMAIN j : j[h] # "running"
    /\ \/ \A h \in DOMAIN j : j[h] = "done"
       \/ \E h \in DOMAIN j : outcome[h] = "failed"

\* execute blocks until every job of the queue has ended.
QueueDrained(j) == \A h \in DOMAIN j : j[h] = "done"

fanFrame == <<networks, env_created, netVars, nodeVars, tearVars,
              cluster_ssh_call, validateVars>>

\* execute(_task, command=command, hosts=hosts): one job per host is queued.
fan_execute ==
    /\ fpc = "idle"
    /\ fpc' = "running"
    /\ UNCHANGED <<fhosts, fails, job, outcome, fresult, ferror>>
    /\ UNCHANGED fanFrame

\* The next queued job is handed to a free worker.
fan_start_job ==
    /\ fpc = "running"
    /\ Queued # {}
    /\ WorkerSlotFree(Running)
    /\ LET h == CHOOSE q \in Queued : \A r \in Queued : q <= r
       IN  job' = [job EXCEPT ![h] = "running"]
    /\ UNCHANGED <<fhosts, fails, outcome, fpc, fresult, ferror>>
    /\ UNCHANGED fanFrame

\* run(command) ends on host h: the worker exits cleanly or with an error.
fan_finish_job(h) ==
    /\ fpc = "running"
    /\ job[h] = "running"
    /\ job' = [job EXCEPT ![h] = "done"]
    /\ outcome' = [outcome EXCEPT ![h] = IF h \in fails THEN "failed" ELSE "ok"]
    /\ UNCHANGED <<fhosts, fails, fpc, fresult, ferror>>
    /\ UNCHANGED fanFrame

\* execute ends: it aborts when a worker exited with an error (the callers
\* catch BaseException), and returns the per-host results otherwise.
fan_collect ==
    /\ fpc = "running"
    /\ QueueDrained(job)
    /\ IF \E h \in FanHosts : outcome[h] = "failed"
       THEN /\ fpc' = "raised"
            /\ ferror' = "SystemExit"
            /\ UNCHANGED fresult
       ELSE /\ fpc' = "returned"
            /\ fresult' = outcome
            /\ UNCHANGED ferror
    /\ UNCHANGED <<fhosts, fails, job, outcome>>
    /\ UNCHANGED fanFrame

(***************************************************************************)
(* ClouderaManagerDeployment.validate_services_started.                    *)
(***************************************************************************)
\* Python's None for healthy_time.
NoTime == -1

\* at_fault_services before the first poll assigns it.
Unbound == <<"unbound">>

\* list(self.cluster.get_all_services()) + [self.cm.get_service()]
AllServices == <<"HDFS", "MGMT">>

ServiceStates == {"NA", "STARTED", "STOPPED"}

HealthSummaries == {"GOOD", "BAD"}

\* What one poll can read: for every service its state and health summary.
PollResults ==
    [1 .. Len(AllServices) ->
        [name : {"HDFS", "MGMT"}, serviceState : ServiceStates,
         healthSummary : HealthSummaries]]

\* The if / elif of the loop over all_services.
FaultOf(service) ==
    IF service.serviceState # "NA" /\ service.serviceState # "STARTED"
    THEN "NOT STARTED"
    ELSE IF service.serviceState # "NA" /\ service.healthSummary # "GOOD"
    THEN "Failed health checks"
    ELSE "none"

IsAtFault(service) == FaultOf(service) # "none"

\* at_fault_services after the loop: [name, reason] in service order.
AtFaultServices(result) ==
    LET faulty == SelectSeq(result, IsAtFault)
    IN  [i \in 1 .. Len(faulty) |-> <<faulty[i].name, FaultOf(faulty[i])>>]

\* Python's truth value of healthy_time: None and 0 are false.
Falsy(t) == t = NoTime \/ t = 0

\* A poll that finds a fault leaves a window that has begun untouched.
WindowAfterPoll_no_restart(window, at_fault, now) ==
    IF Falsy(window)
    THEN IF at_fault = << >> THEN now ELSE NoTime
    ELSE window

\* if not healthy_time or at_fault_services:
\*     healthy_time = time() if not at_fault_services else None
WindowAfterPoll(window, at_fault, now) ==
    IF Falsy(window) \/ at_fault # << >>
    THEN IF at_fault = << >> THEN now ELSE NoTime
    ELSE window

\* timeout_min * 60
TimeoutSec == timeout_min * SECONDS_PER_MINUTE

validateFrame == <<networks, env_created, netVars, nodeVars, tearVars, fanVars,
                   cluster_ssh_call, timeout_min, healthy_time_threshold_sec>>

\* start_validating_time = time(); healthy_time = None
validate_services_started_call ==
    /\ vpc = "idle"
    /\ start_validating_time' = clock
    /\ healthy_time' = NoTime
    /\ vpc' = "while"
    /\ UNCHANGED <<clock, at_fault_services, verror, last_poll_began, quiet_since>>
    /\ UNCHANGED validateFrame

\* while healthy_time is None or (time() - healthy_time < threshold)
validate_while ==
    /\ vpc = "while"
    /\ vpc' = IF healthy_time = NoTime
                 \/ clock - healthy_time < healthy_time_threshold_sec
              THEN "deadline" ELSE "returned"
    /\ UNCHANGED <<clock, start_validating_time, healthy_time,
                   at_fault_services, verror, last_poll_began, quiet_since>>
    /\ UNCHANGED validateFrame

\* if (time() - start_validating_time < timeout_min * 60): ... else: raise
validate_deadline ==
    /\ vpc = "deadline"
    /\ IF clock - start_validating_time < TimeoutSec
       THEN /\ vpc' = "poll"
            /\ last_poll_began' = clock
            /\ UNCHANGED verror
       ELSE /\ vpc' = "raised"
            /\ verror' = IF at_fault_services = Unbound
                         THEN "UnboundLocalError" ELSE "Timed out"
            /\ UNCHANGED last_poll_began
    /\ UNCHANGED <<clock, start_validating_time, healthy_time,
                   at_fault_services, quiet_since>>
    /\ UNCHANGED validateFrame

\* The services are read, which takes up to MaxPollSec seconds, and
\* at_fault_services and healthy_time are assigned.
validate_poll ==
    /\ vpc = "poll"
    /\ \E result \in PollResults, took \in 0 .. MaxPollSec :
         /\ \A i \in 1 .. Len(AllServices) : result[i].name = AllServices[i]
         /\ clock' = clock + took
         /\ at_fault_services' = AtFaultServices(result)
         /\ healthy_time' = WindowAfterPoll(healthy_time, AtFaultServices(result),
                                            clock + took)
         /\ quiet_since' = IF \E i \in 1 .. Len(result) : IsAtFault(result[i])
                           THEN NoTime
                           ELSE IF quiet_since = NoTime THEN clock
                           ELSE quiet_since
    /\ vpc' = "sleep"
    /\ UNCHANGED <<start_validating_time, verror, last_poll_began>>
    /\ UNCHANGED validateFrame

\* sleep(3)
validate_sleep ==
    /\ vpc = "sleep"
    /\ clock' = clock + SLEEP_SEC
    /\ vpc' = "while"
    /\ UNCHANGED <<start_validating_time, healthy_time, at_fault_services,
                   verror, last_poll_began, quiet_since>>
    /\ UNCHANGED validateFrame

\* validate_services_started has not been called.
ValidateIdle ==
    /\ clock = 1
    /\ vpc = "idle"
    /\ start_validating_time = NoTime
    /\ healthy_time = NoTime
    /\ at_fault_services = Unbound
    /\ verror = "none"
    /\ last_poll_began = NoTime
    /\ quiet_since = NoTime

\* The other operations never validate services: the default arguments.
ValidateDefaults ==
    /\ timeout_min = 10
    /\ healthy_time_threshold_sec = 30
    /\ ValidateIdle

\* No fan-out has been asked for, and Cluster.ssh has not been called.
FanDefaults ==
    /\ cluster_ssh_call = NoSshCall
    /\ fhosts = 0
    /\ fails = {}
    /\ job = << >>
    /\ outcome = << >>
    /\ fpc = "idle"
    /\ fresult = << >>
    /\ ferror = "none"

(***************************************************************************)
(* Specification SpecSubnet: the subnet search alone, as a function of the *)
(* set of networks on the host and of the base candidate.                  *)
(***************************************************************************)
NetDefaults ==
    /\ network_name = "net1"
    /\ next_network_subnet = NoSubnet
    /\ conflicting_network = -1
    /\ attempt = 0
    /\ error = "none"
    /\ create_calls = 0
    /\ resolve_calls = 0
    /\ slept = 0
    /\ resolved = NoSubnet
    /\ last_response = "none"
    /\ was_present = FALSE
    /\ calls = 0
    /\ search_results = <<>>
    /\ env_created = 0

InitSubnet ==
    /\ networks \in InitNetworkSets({"bridge", "net1", "other"})
    /\ pre_networks = networks
    /\ start_subnet \in Cidrs
    /\ subnet = start_subnet
    /\ search_ret = "searched"
    /\ pc = "search"
    /\ NetDefaults
    /\ QuietHost
    /\ TearDefaults
    /\ FanDefaults
    /\ ValidateDefaults

\* A further call get_available_network_subnet(start_subnet).
search_again ==
    /\ pc = "searched"
    /\ Len(search_results) < MaxSearches
    /\ pc' = "search"
    /\ subnet' = start_subnet
    /\ UNCHANGED <<network_name, start_subnet, search_ret, next_network_subnet,
                   conflicting_network, attempt, error, create_calls,
                   resolve_calls, slept, resolved, last_response, was_present,
                   pre_networks, calls, search_results>>
    /\ UNCHANGED engineNetVars
    /\ UNCHANGED otherVars

NextSubnetSearch == get_available_network_subnet_step \/ search_again

SpecSubnet == InitSubnet /\ [][NextSubnetSearch]_vars

(***************************************************************************)
(* Specification SpecNetwork: Cluster.setup_network, called up to MaxCalls *)
(* times, against the engine and a competing process.                      *)
(***************************************************************************)
InitNetwork ==
    /\ networks \in InitNetworkSets({"bridge", "net1"})
    /\ pre_networks = networks
    /\ start_subnet = NETWORK_SUBNET_START
    /\ subnet = NETWORK_SUBNET_START
    /\ search_ret = "create"
    /\ pc = "idle"
    /\ NetDefaults
    /\ QuietHost
    /\ TearDefaults
    /\ FanDefaults
    /\ ValidateDefaults

\* The caller invokes setup_network once more.
setup_network_again ==
    /\ pc = "sn_returned"
    /\ calls < MaxCalls
    /\ pc' = "idle"
    /\ UNCHANGED <<network_name, start_subnet, subnet, search_ret,
                   next_network_subnet, conflicting_network, attempt, error,
                   create_calls, resolve_calls, slept, resolved, last_response,
                   was_present, pre_networks, calls, search_results>>
    /\ UNCHANGED engineNetVars
    /\ UNCHANGED otherVars

NextNetwork ==
    \/ setup_network_call
    \/ get_available_network_subnet_step
    \/ create_network
    \/ resolve_conflicting_network
    \/ setup_network_again
    \/ EnvCreateNetwork
    \/ EnvPublishNetwork

SpecNetwork == InitNetwork /\ [][NextNetwork]_vars

(***************************************************************************)
(* Specification Spec: Cluster.start of a cluster of one primary and two   *)
(* secondary nodes on network net1, against the engine and a competing     *)
(* process.                                                                *)
(***************************************************************************)
\* The networks on the host before Cluster.start.
StartNetworkSets ==
    { S \in InitNetworkSets({"bridge", "net1"}) :
        \A n \in S : /\ n.name = "bridge" => n.subnet.addr = 0
                     /\ n.name = "net1" => n.subnet = [addr |-> 4, size |-> 2] }

\* A container left running in the network by an earlier cluster.
OldContainer(hostname) ==
    ContainerRec("old", Fqdn(hostname, "net1"), "net1", "running",
                 [subnet |-> [addr |-> 4, size |-> 2], host |-> 2], << >>)

Init ==
    /\ networks \in StartNetworkSets
    /\ pre_networks = networks
    /\ start_subnet = NETWORK_SUBNET_START
    /\ subnet = NETWORK_SUBNET_START
    /\ search_ret = "create"
    /\ pc = "idle"
    /\ NetDefaults
    /\ containers \in
         ( {{}} \cup ( IF \E n \in networks : n.name = "net1"
                       THEN { {OldContainer(h)} : h \in {"node-2", "node-9"} }
                       ELSE {} ) )
    /\ etc_hosts = << HostsLine([subnet |-> NoSubnet, host |-> 1], "localhost", "localdomain") >>
    /\ answers \in { [n \in Nodes |-> TRUE], [n \in Nodes |-> n # "n2"] }
    /\ NodeDefaults
    /\ TearDefaults
    /\ FanDefaults
    /\ ValidateDefaults

Next ==
    \/ setup_network_call
    \/ get_available_network_subnet_step
    \/ create_network
    \/ resolve_conflicting_network
    \/ EnvCreateNetwork
    \/ EnvPublishNetwork
    \/ check_hostnames
    \/ dispatch_thread
    \/ join_and_write_hosts
    \/ \E n \in Nodes : node_start(n)

Spec == Init /\ [][Next]_vars

(***************************************************************************)
(* Specification SpecTeardown: remove_all_containers on a host that holds  *)
(* labelled containers.                                                    *)
(***************************************************************************)
\* The host paths that labels carry: "/", "/a", "/a/b", "a", "//" and "".
PathPool == { <<"/">>, <<"/", "a">>, <<"/", "a", "/", "b">>, <<"a">>,
              <<"/", "/">>, << >> }

\* Label keys: volume1 and volume2 as Node.start writes them, a key that
\* holds the word in its middle and one that does not hold it.
KeyPool == { [text |-> "volume", index |-> 1], [text |-> "volume", index |-> 2],
             [text |-> "old_volume", index |-> 0], [text |-> "owner", index |-> 0] }

\* The label dictionaries of at most MaxLabels entries, in iteration order.
LabelDicts ==
    UNION { { l \in [1 .. k -> [key : KeyPool, value : PathPool]] :
                \A i, j \in 1 .. k : l[i].key = l[j].key => i = j }
            : k \in 0 .. MaxLabels }

\* /proc/self/cgroup with no line that mentions docker, with a line that
\* ends in the id of container c1, and with a line that ends in an id the
\* engine lists no container for.
CgroupFiles ==
    { << <<"1:name=systemd:", "">>, << >> >>,
      << <<"2:cpu:", "">>, <<"1:name=systemd:", "docker", "c1">>, << >> >>,
      << <<"1:name=systemd:", "docker", "c9">>, << >> >> }

TearContainer(id, labels) ==
    ContainerRec(id, Fqdn(id, "bridge"), "bridge", "running", NoAddress, labels)

InitTeardown ==
    /\ networks = {HostNet}
    /\ pre_networks = networks
    /\ start_subnet = NETWORK_SUBNET_START
    /\ subnet = NETWORK_SUBNET_START
    /\ search_ret = "searched"
    /\ pc = "idle"
    /\ NetDefaults
    /\ \E own \in SUBSET { TearContainer("c1", l) :
                             l \in { << >>, << [key |-> [text |-> "volume", index |-> 1],
                                               value |-> <<"/", "a", "/", "b">>] >> } },
          other \in SUBSET { TearContainer("c3", << >>) },
          l2 \in LabelDicts :
         /\ Cardinality(own) <= 1
         /\ containers = own \cup other \cup {TearContainer("c2", l2)}
    /\ etc_hosts = << HostsLine([subnet |-> NoSubnet, host |-> 1], "localhost", "localdomain") >>
    /\ answers = [n \in Nodes |-> TRUE]
    /\ NodeDefaults
    /\ cgroup \in CgroupFiles
    /\ TearIdle
    /\ FanDefaults
    /\ ValidateDefaults

NextTeardown ==
    \/ teardown_begin
    \/ teardown_schedule_delete
    \/ teardown_wait_helper
    \/ teardown_remove_container

SpecTeardown == InitTeardown /\ [][NextTeardown]_vars

(***************************************************************************)
(* Specification SpecFanout: one ssh / quiet_ssh call on 1 to MaxHosts     *)
(* hosts.                                                                  *)
(***************************************************************************)
InitFanout ==
    /\ networks = {HostNet}
    /\ pre_networks = networks
    /\ start_subnet = NETWORK_SUBNET_START
    /\ subnet = NETWORK_SUBNET_START
    /\ search_ret = "searched"
    /\ pc = "idle"
    /\ NetDefaults
    /\ QuietHost
    /\ TearDefaults
    /\ fhosts \in 1 .. MaxHosts
    /\ fails \in { F \in SUBSET (1 .. fhosts) : Cardinality(F) <= MaxFailing }
    /\ job = [h \in 1 .. fhosts |-> "queued"]
    /\ outcome = [h \in 1 .. fhosts |-> "none"]
    /\ fpc = "idle"
    /\ fresult = << >>
    /\ ferror = "none"
    /\ cluster_ssh_call = NoSshCall
    /\ ValidateDefaults

NextFanout ==
    \/ fan_execute
    \/ fan_start_job
    \/ \E h \in FanHosts : fan_finish_job(h)
    \/ fan_collect

SpecFanout == InitFanout /\ [][NextFanout]_vars

(***************************************************************************)
(* Specification SpecNodes: Cluster.start from the hostname check on, for  *)
(* nodes declared with different volumes and hostnames.                    *)
(***************************************************************************)
\* The (host path, container path) pairs callers pass: /a on /b, /c on /d.
VolumePool == { [host |-> <<"/", "a">>, cont |-> <<"/", "b">>],
                [host |-> <<"/", "c">>, cont |-> <<"/", "d">>] }

VolumeLists == UNION { [1 .. k -> VolumePool] : k \in 0 .. MaxVolumes }

\* Distinct hostnames, or node-2 declared for two nodes of the cluster.
HostnameChoices ==
    { DefaultHostnames, [n \in Nodes |-> IF n = "n1" THEN "node-1" ELSE "node-2"] }

InitNodes ==
    /\ networks \in { S \in StartNetworkSets : \E n \in S : n.name = "net1" }
    /\ pre_networks = networks
    /\ start_subnet = NETWORK_SUBNET_START
    /\ subnet = NETWORK_SUBNET_START
    /\ search_ret = "create"
    /\ pc = "sn_returned"
    /\ NetDefaults
    /\ containers = {}
    /\ etc_hosts = << HostsLine([subnet |-> NoSubnet, host |-> 1], "localhost", "localdomain") >>
    /\ answers = [n \in Nodes |-> TRUE]
    /\ node_hostname \in HostnameChoices
    /\ \E v \in VolumeLists : volume_args = [n \in Nodes |-> IF n = "n1" THEN v ELSE << >>]
    /\ NodeUnstarted
    /\ TearDefaults
    /\ FanDefaults
    /\ ValidateDefaults

NextNodes ==
    \/ check_hostnames
    \/ dispatch_thread
    \/ join_and_write_hosts
    \/ \E n \in Nodes : node_start(n)

SpecNodes == InitNodes /\ [][NextNodes]_vars

(***************************************************************************)
(* Specification SpecGroups: a started cluster whose groups take further   *)
(* nodes and on which Cluster.ssh is called.                               *)
(***************************************************************************)
\* NodeGroup(name='primary', nodes=[...]), NodeGroup(name='secondary', ...)
\* as the callers construct them, then Cluster(node_groups=...).
InitGroups ==
    /\ networks = {HostNet}
    /\ pre_networks = networks
    /\ start_subnet = NETWORK_SUBNET_START
    /\ subnet = NETWORK_SUBNET_START
    /\ search_ret = "searched"
    /\ pc = "started"
    /\ NetDefaults
    /\ containers = {}
    /\ etc_hosts = << HostsLine([subnet |-> NoSubnet, host |-> 1], "localhost", "localdomain") >>
    /\ answers = [n \in Nodes |-> TRUE]
    /\ \E secondary \in { << >>, <<"n2">>, <<"n2", "n3">> } :
         node_groups = << [name |-> "primary", nodes |-> <<"n1">>],
                          [name |-> "secondary", nodes |-> secondary] >>
    /\ nodes = Flatten(node_groups)
    /\ node_cluster = [n \in Nodes |-> "cluster"]
    /\ container_id = [n \in Nodes |-> NewContainerId(n)]
    /\ ip_address = [n \in Nodes |->
                       [subnet |-> NETWORK_SUBNET_START,
                        host |-> CASE n = "n1" -> 2 [] n = "n2" -> 3 [] OTHER -> 4]]
    /\ npc = [n \in Nodes |-> "reachable"]
    /\ nerror = [n \in Nodes |-> "none"]
    /\ dispatched = 0
    /\ pre_containers = containers
    /\ pre_hosts = etc_hosts
    /\ node_hostname = DefaultHostnames
    /\ volume_args = DefaultVolumeArgs
    /\ host_config = [n \in Nodes |-> get_binds(n)]
    /\ engine_calls = [n \in Nodes |->
                         <<"create", "disconnect", "connect", "start", "read_ip", "probe">>]
    /\ TearDefaults
    /\ FanDefaults
    /\ ValidateDefaults

NextGroups ==
    \/ cluster_ssh
    \/ \E g \in 1 .. Len(node_groups) : \E n \in Nodes : add_node(g, n)

SpecGroups == InitGroups /\ [][NextGroups]_vars


(***************************************************************************)
(* Properties of the subnet search and of setup_network.                   *)
(***************************************************************************)
\* The subnets in use on the host.
SubnetsInUse == { n.subnet : n \in { m \in networks : m.subnet # NoSubnet } }

\* C3: the candidate the subnet search returns shares no address with any
\* subnet in use on the host, whatever the prefix lengths.
C3_SearchResultDisjoint ==
    pc = "searched" =>
        \A s \in SubnetsInUse : ~SharesAddress(next_network_subnet, s)

\* C5 as stated: once the conflicting network's subnet is resolved, creation
\* is retried, with a candidate that differs from and shares no address with
\* that subnet.
C5_RetriedPastConflict ==
    resolved # NoSubnet =>
        /\ pc \in {"search", "create"}
        /\ pc = "create" =>
              /\ ~IPNetworkEq(next_network_subnet, resolved)
              /\ ~SharesAddress(next_network_subnet, resolved)

\* C5 amended: once the conflicting network's subnet is resolved, either the
\* subnet search runs off the end of the address space and its IndexError
\* reaches the caller, or creation is retried with a candidate that differs
\* from and shares no address with that subnet.
C5_RetriedPastConflictOrIndexError ==
    resolved # NoSubnet =>
        /\ \/ pc \in {"search", "create"}
           \/ pc = "raised" /\ error = "IndexError"
        /\ pc = "create" =>
              /\ ~IPNetworkEq(next_network_subnet, resolved)
              /\ ~SharesAddress(next_network_subnet, resolved)

C5_Witness ==
    /\ pc = "create"
    /\ resolved # NoSubnet
    /\ last_response = "overlap"
    /\ First(next_network_subnet) > Last(resolved)

\* C6: after create_network answers with an error unrelated to subnet
\* overlap, setup_network has ended with that error: it is not in the retry
\* loop, and issues no resolution and no further creation attempt.
C6_UnrelatedErrorReraised ==
    last_response = "other" =>
        /\ pc = "raised"
        /\ error = "APIError"
        /\ resolve_calls = 0
        /\ slept = 0

C6_Witness ==
    /\ last_response = "other"
    /\ pc = "raised"
    /\ create_calls > 1

\* C7: a setup_network call that finds the network present returns at once,
\* issues no create_network call and leaves the networks as they were; a call
\* that follows a completed call always finds the network present.
C7_SetupNetworkIdempotent ==
    [][ (pc = "idle" /\ pc' # "idle") =>
          /\ (\E n \in networks : n.visible /\ n.name = network_name) =>
                (pc' = "sn_returned" /\ networks' = networks /\ create_calls' = 0)
          /\ calls >= 1 => (\E n \in networks : n.visible /\ n.name = network_name) ]_vars

C7_Witness ==
    /\ pc = "sn_returned"
    /\ calls = 2
    /\ was_present
    /\ \E n \in networks : n.id >= 20

\* C8: in a resolution round get_network_subnet is called at most 5 times,
\* one second is slept after each call that did not find the network, and
\* after the fifth such call creation is tried again.
C8_BoundedResolution ==
    /\ resolve_calls <= 5
    /\ last_response = "overlap" =>
          /\ attempt <= 5
          /\ slept = attempt * 1
          /\ pc = "resolve" => (attempt < 5 /\ resolve_calls = attempt)
          /\ attempt = 5 => (pc = "create" /\ resolve_calls = 5)

C8_Witness ==
    /\ pc = "create"
    /\ attempt = 5
    /\ slept = 5
    /\ resolve_calls = 5

(***************************************************************************)
(* Properties of Cluster.start.                                            *)
(***************************************************************************)
\* The hostnames of the containers that were in the cluster's network when
\* Cluster.start was called.
HostnamesBefore ==
    { c.hostname[1] : c \in { d \in pre_containers : d.network = network_name } }

\* A declared node hostname is already present in the network.
HostnameTaken ==
    \E i \in 1 .. Len(nodes) : NodeHostname(nodes[i]) \in HostnamesBefore

\* C1: when a declared hostname is already present in the network,
\* Cluster.start ends with the hostname-collision error, no thread has been
\* dispatched and no container has been created.
C1_CollisionFailsBeforeCreate ==
    HostnameTaken =>
        /\ \/ pc \in {"idle", "sn_returned"}
           \/ pc = "raised" /\ error = "HostnameCollision"
        /\ containers = pre_containers
        /\ \A n \in Nodes : npc[n] = "unstarted" /\ container_id[n] = None
        /\ dispatched = 0

C1_Witness ==
    /\ pc = "raised"
    /\ error = "HostnameCollision"
    /\ HostnameTaken
    /\ node_cluster["n2"] = "cluster"

\* C2: Cluster.start returns normally only if no node's start failed.
C2_NodeFailurePropagates ==
    pc = "started" => \A i \in 1 .. Len(nodes) : npc[nodes[i]] # "failed"

\* C4: with no container on the host before, every container created and
\* every node answering, Cluster.start ends with 3 reachable nodes that have
\* a container id and an address, 3 appended /etc/hosts lines, and a network
\* net1 whose subnet shares no address with a subnet that existed before.
C4_EndToEnd ==
    ( /\ pc = "started"
      /\ pre_containers = {}
      /\ \A n \in Nodes : answers[n] /\ nerror[n] # "APIError" )
    =>
    /\ Len(nodes) = 3
    /\ \A i \in 1 .. Len(nodes) :
         /\ npc[nodes[i]] = "reachable"
         /\ container_id[nodes[i]] # None
         /\ ip_address[nodes[i]] # NoAddress
    /\ Len(etc_hosts) = Len(pre_hosts) + 3
    /\ \E net \in networks :
         /\ net.name = "net1"
         /\ \A p \in pre_networks :
              (p.id # net.id /\ p.subnet # NoSubnet) => ~SharesAddress(net.subnet, p.subnet)

\* A path that holds a separator and nothing before its last separator.
EmptyParent(p) ==
    /\ Len(p) >= 1
    /\ p[1] = "/"
    /\ \A i \in 2 .. Len(p) : p[i] # "/"

\* C9: remove_all_containers never puts a labelled host path into an rm
\* command when the path holds a separator and the text before its last
\* separator is empty ("/", "/name").
C9_NoEmptyParentScheduled ==
    \A p \in scheduled : ~EmptyParent(p)

\* A container labelled volume=/a came through the teardown while another
\* label's path was scheduled.
C9_Witness ==
    /\ tpc = "returned"
    /\ scheduled # {}
    /\ \E i \in 1 .. Len(listing) : \E k \in 1 .. Len(listing[i].labels) :
         /\ listing[i].labels[k].key.text = "volume"
         /\ listing[i].labels[k].value = <<"/", "a">>

\* The ids get_all_containers listed.
ListedIds == { listing[i].id : i \in 1 .. Len(listing) }

\* C10: remove_all_containers never calls remove_container for the id it
\* read from the control-group file, the engine keeps that container, and
\* when the call returns every other listed container has been removed.
C10_OwnKeptOthersRemoved ==
    /\ clusterdock_container_id \notin removed
    /\ \A c \in pre_containers : c.id = clusterdock_container_id => c \in containers
    /\ tpc = "returned" =>
         /\ removed = ListedIds \ {clusterdock_container_id}
         /\ containers = { c \in pre_containers : c.id = clusterdock_container_id }

C10_Witness ==
    /\ tpc = "returned"
    /\ clusterdock_container_id \in ListedIds
    /\ Cardinality(removed) = 2
    /\ \E c \in containers : c.id = clusterdock_container_id

\* C11: a delete helper that exits non-zero does not abort
\* remove_all_containers: no exception escapes, every listed container is
\* processed, and the container the helper ran for is removed.
C11_HelperFailureDoesNotAbort ==
    /\ helper_failed # {} => (tpc # "raised" /\ terror = "none")
    /\ tpc = "returned" =>
         /\ idx = Len(listing) + 1
         /\ helper_failed \subseteq removed

\* No line of /proc/self/cgroup mentions docker.
NoDockerLine ==
    \A i \in 1 .. Len(cgroup) : \A k \in 1 .. Len(cgroup[i]) : cgroup[i][k] # "docker"

\* C12: when no control-group line identifies the own container,
\* remove_all_containers ends with ContainerNotFoundException, and no
\* container has been removed and no host path scheduled for deletion.
C12_NotFoundBeforeAnyRemoval ==
    NoDockerLine =>
        /\ \/ tpc = "idle"
           \/ tpc = "raised" /\ terror = "ContainerNotFoundException"
        /\ removed = {}
        /\ scheduled = {}
        /\ containers = pre_containers

C12_Witness ==
    /\ NoDockerLine
    /\ tpc = "raised"
    /\ terror = "ContainerNotFoundException"
    /\ \E c \in containers : c.id = "c2" /\ HostFoldersToDelete(c.labels) # << >>
    /\ Cardinality(containers) = 3

\* What the task does on host h, whatever happens on the other hosts.
ExpectedOutcome(h) == IF h \in fails THEN "failed" ELSE "ok"

\* The execute call has ended.
FanEnded == fpc \in {"returned", "raised"}

C14_AtMostPoolSizeRunning ==
    /\ Cardinality(Running) <= POOL_SIZE
    /\ \A h \in FanHosts :
         (h > POOL_SIZE /\ job[h] # "queued") => \E g \in FanHosts : job[g] = "done"

C14_Witness ==
    /\ Cardinality(Running) = POOL_SIZE
    /\ Queued # {}

\* The addresses of a set of nodes.
AddressesOf(S) == { ip_address[n] : n \in S }

\* The addresses a Cluster.ssh call handed to the fan-out.
Targeted == { cluster_ssh_call.targets[i] : i \in 1 .. Len(cluster_ssh_call.targets) }

\* The nodes of the cluster's flat list.
FlatNodes == { nodes[i] : i \in 1 .. Len(nodes) }

\* C15: a Cluster.ssh call without subset targets every node of the
\* cluster; with a subset of the cluster's nodes, the empty one included,
\* it targets exactly the addresses of the nodes of the subset.
C15_TargetsSubsetOrAll ==
    cluster_ssh_call.made =>
        IF ~cluster_ssh_call.arg.given
        THEN Targeted = AddressesOf(FlatNodes)
        ELSE cluster_ssh_call.arg.nodes \subseteq FlatNodes =>
                 Targeted = AddressesOf(cluster_ssh_call.arg.nodes)

\* C16: a node ends reachable only if its probe succeeded, and a node whose
\* probe does not succeed ends failed with the reachability-timeout error.
C16_ProbeDecidesNodeStart ==
    \A n \in Nodes :
        /\ npc[n] = "reachable" => answers[n]
        /\ (npc[n] = "failed" /\ nerror[n] # "APIError" /\ ~answers[n]) =>
               nerror[n] = "ReachabilityTimeout"

\* The ids of the containers the engine holds.
ContainerIds == { c.id : c \in containers }

\* C17: whatever fails in Node.start or Cluster.start, every container a
\* node created and the network setup_network created are still held by
\* the engine, as is every container that existed before.
C17_NoRollback ==
    /\ \A n \in Nodes : container_id[n] # None => container_id[n] \in ContainerIds
    /\ \A c \in pre_containers : c.id \in ContainerIds
    /\ last_response = "created" =>
           \E net \in networks : net.name = network_name /\ net.id = 20 + create_calls - 1

\* One node failed after its container was started, in a network this call
\* created, and Cluster.start has ended.
C17_Witness ==
    /\ pc = "started"
    /\ last_response = "created"
    /\ \E n \in Nodes :
         /\ npc[n] = "failed"
         /\ container_id[n] # None
         /\ \E c \in containers : c.id = container_id[n] /\ c.state = "running"
    /\ \E n \in Nodes : npc[n] = "failed" /\ container_id[n] = None

\* C18: /etc/hosts keeps its earlier content; nothing is appended before
\* every node's start has ended; once Cluster.start has completed the file
\* is its earlier content followed by one "<address>   <fqdn>" line per
\* node of the flat list, in list order.
C18_HostsAppendedAfterJoin ==
    /\ SubSeq(etc_hosts, 1, Len(pre_hosts)) = pre_hosts
    /\ etc_hosts # pre_hosts => \A i \in 1 .. Len(nodes) : npc[nodes[i]] \in {"reachable", "failed"}
    /\ pc # "started" => etc_hosts = pre_hosts
    /\ pc = "started" =>
         /\ Len(etc_hosts) = Len(pre_hosts) + Len(nodes)
         /\ \A i \in 1 .. Len(nodes) :
              etc_hosts[Len(pre_hosts) + i] =
                  [ip |-> ip_address[nodes[i]],
                   fqdn |-> <<NodeHostname(nodes[i]), network_name>>]

C18_Witness ==
    /\ pc = "started"
    /\ Len(etc_hosts) = Len(pre_hosts) + 3
    /\ \A n \in Nodes : ip_address[n] # NoAddress

\* C19: the cluster's flat node list is the in-order concatenation of the
\* node lists of its groups, so iteration and count over the cluster cover
\* exactly the nodes of the groups, also after NodeGroup.add_node.
C19_FlatListDerived ==
    /\ nodes = Flatten(node_groups)
    /\ ClusterIter = Flatten(node_groups)
    /\ ClusterLen = Len(Flatten(node_groups))

\* How many times node n is a member of a group.
Memberships(n) ==
    Cardinality({ <<g, i>> \in (1 .. Len(node_groups)) \X (1 .. MaxMembers) :
                    i <= Len(node_groups[g].nodes) /\ node_groups[g].nodes[i] = n })

\* C20: no node is a member of two groups, or twice of the same group.
C20_NodeInOneGroup ==
    \A n \in Nodes : Memberships(n) <= 1

\* C21: successive searches from the same base candidate over an unchanged
\* set of networks return the same candidate, and the search changes no
\* network.
C21_SearchIdempotent ==
    /\ \A i, j \in 1 .. Len(search_results) : search_results[i] = search_results[j]
    /\ networks = pre_networks

\* Two searches have returned, each after moving past the base candidate.
C21_Witness ==
    /\ Len(search_results) = 2
    /\ search_results[2] # start_subnet
    /\ pc = "searched"

\* The text "h:c:rw" of one (host path, container path) pair.
RwSpec(h, c) == h \o <<":">> \o c \o <<":", "rw">>

\* Node.start has built the host configuration of node n.
HostConfigBuilt(n) == engine_calls[n] # << >>

\* C22 as stated: the bind specs of a node are exactly one "h:c:rw" per
\* bind input, in input order.
C22_BindsFromInputsOnly ==
    \A n \in Nodes : HostConfigBuilt(n) =>
        /\ Len(host_config[n]) = Len(volume_args[n])
        /\ \A i \in 1 .. Len(volume_args[n]) :
             host_config[n][i] = RwSpec(volume_args[n][i].host, volume_args[n][i].cont)

\* C22 amended: the bind specs are "/etc/localtime:/etc/localtime:rw"
\* followed by one "h:c:rw" per bind input, in input order; for the inputs
\* [("/a","/b"), ("/c","/d")] they are that bind, "/a:/b:rw" and "/c:/d:rw".
C22_BindsLocaltimeThenInputs ==
    \A n \in Nodes : HostConfigBuilt(n) =>
        /\ Len(host_config[n]) = 1 + Len(volume_args[n])
        /\ host_config[n][1] =
             <<"/", "etc", "/", "localtime", ":", "/", "etc", "/", "localtime", ":", "rw">>
        /\ \A i \in 1 .. Len(volume_args[n]) :
             host_config[n][1 + i] = RwSpec(volume_args[n][i].host, volume_args[n][i].cont)
        /\ volume_args[n] = << [host |-> <<"/", "a">>, cont |-> <<"/", "b">>],
                               [host |-> <<"/", "c">>, cont |-> <<"/", "d">>] >>
             => /\ host_config[n][2] = <<"/", "a", ":", "/", "b", ":", "rw">>
                /\ host_config[n][3] = <<"/", "c", ":", "/", "d", ":", "rw">>

C22_Witness ==
    /\ HostConfigBuilt("n1")
    /\ volume_args["n1"] = << [host |-> <<"/", "a">>, cont |-> <<"/", "b">>],
                              [host |-> <<"/", "c">>, cont |-> <<"/", "d">>] >>
    /\ Len(host_config["n1"]) = 3

\* The labels of the container Node.start created for node n.
CreatedLabels(n) == (CHOOSE c \in containers : c.id = container_id[n]).labels

NodeStartOrder == <<"create", "disconnect", "connect", "start", "read_ip", "probe">>

\* The container of node n, once created.
NodeContainer(n) == CHOOSE c \in containers : c.id = container_id[n]

\* C24: the engine calls of every Node.start are an initial part of create,
\* detach from bridge, attach to the target network, start, read address,
\* probe, none skipped or reordered: a started container is attached to
\* the target network and not to bridge, an address is held only for a
\* started container, and a node ends reachable only after the probe.
C24_NodeStartOrder ==
    \A n \in Nodes :
        /\ Len(engine_calls[n]) <= Len(NodeStartOrder)
        /\ engine_calls[n] = SubSeq(NodeStartOrder, 1, Len(engine_calls[n]))
        /\ container_id[n] # None =>
             /\ NodeContainer(n).state = "running" => NodeContainer(n).network = network_name
             /\ ip_address[n] # NoAddress => NodeContainer(n).state = "running"
        /\ container_id[n] = None => ip_address[n] = NoAddress
        /\ npc[n] = "reachable" => engine_calls[n] = NodeStartOrder
        /\ npc[n] = "failed" => Len(engine_calls[n]) \in {1, Len(NodeStartOrder)}

C24_Witness ==
    /\ engine_calls["n1"] = NodeStartOrder
    /\ engine_calls["n2"] = <<"create", "disconnect", "connect">>
    /\ engine_calls["n3"] = <<"create">>
    /\ npc["n3"] = "failed"

\* C25: no two running containers attached to the cluster's network have
\* the same hostname.
C25_UniqueHostnamesInNetwork ==
    \A c, d \in containers :
        ( /\ c.id # d.id
          /\ c.network = network_name /\ d.network = network_name
          /\ c.state = "running" /\ d.state = "running" )
        => c.hostname[1] # d.hostname[1]

\* C26: every line Cluster.start appended to the hosts file carries an
\* address that was assigned, and belongs to a node whose start succeeded.
C26_HostsLinesOnlyForStartedNodes ==
    \A i \in 1 .. Len(nodes) :
        Len(pre_hosts) + i <= Len(etc_hosts) =>
            /\ etc_hosts[Len(pre_hosts) + i].ip # NoAddress
            /\ npc[nodes[i]] = "reachable"

\* C28: bulk teardown schedules host directories for deletion only on
\* behalf of containers it removes, never on behalf of the orchestrator's
\* own container.
C28_DeletionOnlyForRemoved ==
    /\ clusterdock_container_id \notin scheduled_for
    /\ tpc = "returned" => scheduled_for \subseteq removed

\* C29: the helper container exists only while teardown waits for it: it
\* is gone before the labelled container is removed and before the next
\* container is taken up, also after a non-zero exit, and none is left
\* when remove_all_containers has returned.
C29_HelperRemovedBeforeNext ==
    /\ tpc \in {"loop", "remove", "returned"} => HelperContainer \notin containers
    /\ tpc = "helper" => HelperContainer \in containers

\* Teardown returned after a helper exited non-zero and after one exited 0.
C29_Witness ==
    /\ tpc = "returned"
    /\ helper_failed # {}
    /\ scheduled_for \ helper_failed # {}
    /\ HelperContainer \notin containers

(***************************************************************************)
(* Specification SpecProvision: one call of Cluster.setup_network for a    *)
(* network that is absent, against an engine that answers create_network   *)
(* with success or a subnet overlap only, and a competing process that     *)
(* creates at most MaxEnvNets networks. The orchestrator's thread keeps    *)
(* running and the engine's read API shows every network in the end.       *)
(***************************************************************************)
InitProvision ==
    /\ InitNetwork
    /\ ~is_network_present(network_name, networks)

\* The engine raises no APIError other than the subnet overlap.
create_network_overlap_only ==
    /\ create_network
    /\ last_response' # "other"

\* A round of RESOLVE_ATTEMPTS attempts that all missed the conflicting
\* network ends only while creation attempts remain for every network that
\* can still conflict: the read API shows a network before that.
BlindRoundAllowed ==
    (pc = "create" /\ attempt = RESOLVE_ATTEMPTS)
        => create_calls <= MaxCreates - MaxEnvNets - 2

resolve_conflicting_network_published_in_time ==
    /\ resolve_conflicting_network
    /\ BlindRoundAllowed'

setup_network_step ==
    \/ setup_network_call
    \/ get_available_network_subnet_step
    \/ create_network_overlap_only
    \/ resolve_conflicting_network_published_in_time

NextProvision ==
    \/ setup_network_step
    \/ EnvCreateNetwork
    \/ EnvPublishNetwork

SpecProvision ==
    /\ InitProvision
    /\ [][NextProvision]_vars
    /\ WF_vars(setup_network_step)
    /\ WF_vars(EnvPublishNetwork)

\* C27: when the target network is absent, the competing process creates
\* finitely many networks and the engine raises overlap errors only, then
\* setup_network eventually creates the network and returns.
C27_EventuallyCreated == <>(pc = "sn_returned")

\* C27 (amended): ... setup_network eventually creates the network and
\* returns, or the subnet search runs off the end of the address space and
\* IndexError is raised.
C27_EventuallyCreatedOrIndexError ==
    <>( \/ pc = "sn_returned" /\ is_network_present(network_name, networks)
        \/ pc = "raised" /\ error = "IndexError" )

\* setup_network returned after a creation attempt was repeated with the
\* same candidate: more attempts failed than there are other networks.
C27_Witness ==
    /\ pc = "sn_returned"
    /\ ~was_present
    /\ create_calls - 1 >
         Cardinality({ n \in networks : n.subnet # NoSubnet /\ n.name # network_name })

(***************************************************************************)
(* Specification SpecValidate: one call of validate_services_started with  *)
(* timeout_min in 0 .. MaxTimeoutMin, against services whose state and     *)
(* health change from poll to poll.                                        *)
(***************************************************************************)
Thresholds == {0, SLEEP_SEC, MaxThresholdSec}

InitValidate ==
    /\ networks \in InitNetworkSets({"bridge"})
    /\ pre_networks = networks
    /\ start_subnet = NETWORK_SUBNET_START
    /\ subnet = NETWORK_SUBNET_START
    /\ search_ret = "create"
    /\ pc = "idle"
    /\ NetDefaults
    /\ QuietHost
    /\ TearDefaults
    /\ FanDefaults
    /\ timeout_min \in 0 .. MaxTimeoutMin
    /\ healthy_time_threshold_sec \in Thresholds
    /\ ValidateIdle

NextValidate ==
    \/ validate_services_started_call
    \/ validate_while
    \/ validate_deadline
    \/ validate_poll
    \/ validate_sleep

SpecValidate == InitValidate /\ [][NextValidate]_vars

\* The polls of the call so far all began before timeout_min minutes had passed.
PolledBeforeDeadline ==
    last_poll_began # NoTime => last_poll_began - start_validating_time < TimeoutSec

\* C30: validate_services_started returns only after a window of at least
\* healthy_time_threshold_sec in which every poll found every service
\* started and healthy; a poll that finds a service at fault restarts the
\* window; when the window is not completed within timeout_min minutes the
\* call raises a timeout error instead of returning.
C30_HealthyWindowWithinTimeout ==
    /\ vpc = "returned" =>
         /\ quiet_since # NoTime
         /\ clock - quiet_since >= healthy_time_threshold_sec
         /\ (quiet_since + healthy_time_threshold_sec) - start_validating_time
                <= TimeoutSec
    /\ (vpc = "sleep" /\ at_fault_services # << >>) => healthy_time = NoTime
    /\ vpc = "raised" => verror = "Timed out"

\* C30 (amended): the call returns only after a window of at least
\* healthy_time_threshold_sec, begun by a poll, in which no poll found a
\* service at fault; a poll that finds one restarts the window; the deadline
\* is examined only before a poll, so every poll began before it, and the
\* call raises only when the deadline has passed and the window is not
\* complete: the timeout exception, or UnboundLocalError when no poll was made.
C30_HealthyWindowDeadlineBeforePoll ==
    /\ PolledBeforeDeadline
    /\ vpc = "returned" =>
         /\ healthy_time # NoTime
         /\ quiet_since # NoTime
         /\ quiet_since <= healthy_time
         /\ clock - healthy_time >= healthy_time_threshold_sec
    /\ (vpc = "sleep" /\ at_fault_services # << >>) => healthy_time = NoTime
    /\ vpc = "raised" =>
         /\ clock - start_validating_time >= TimeoutSec
         /\ healthy_time = NoTime
              \/ clock - healthy_time < healthy_time_threshold_sec
         /\ verror = IF last_poll_began = NoTime
                     THEN "UnboundLocalError" ELSE "Timed out"

\* The call returned after the deadline, with a window that began after a
\* poll had found a service at fault.
C30_Witness ==
    /\ vpc = "returned"
    /\ timeout_min > 0
    /\ clock - start_validating_time >= TimeoutSec
    /\ healthy_time_threshold_sec > 0
    /\ quiet_since > start_validating_time + SLEEP_SEC

=============================================================================
